---- MODULE Spec2Model ----
(***************************************************************************)
(* State-machine model of run_hpo.py: the repeat loop of __main__, the     *)
(* optimizer dispatch, the five backend drivers optimize_X, the three      *)
(* objective adapters objective_X, and exception propagation up the call   *)
(* stack.  train_net and Logger live in modules that are imported by       *)
(* run_hpo.py (train_net.py, logger.py); their behaviour is taken from the *)
(* written description of the Budget Guard.                                *)
(*                                                                         *)
(* Time is in seconds.  A fidelity / SMAC budget is a rational number      *)
(* n / FidDen and is represented by its numerator n.                       *)
(***************************************************************************)
EXTENDS Integers, Sequences, FiniteSets, TLC

\* ---------------------------------------------------------------- bounds
MaxRepeats == 2
MaxBudget == 2
MaxEpochs == 2
MaxWallTime == 2
FidDen == 2

\* ------------------------------------------------------ program constants
SecondsPerMinute == 60
MinFidelity == 1
SmacMfTrials == 1000
DehbFactor == 3
RsDb == -1

CostCap == MaxBudget * MaxEpochs + MaxEpochs + 1
TrialCap == MaxBudget * MaxEpochs + 1
TimeCap == (MaxRepeats * MaxBudget * MaxEpochs + 2) * SecondsPerMinute

Min(a, b) == IF a < b THEN a ELSE b
Max(a, b) == IF a > b THEN a ELSE b

\* ------------------------------------------------------------ conversions
\* Python int() on a float: truncation toward zero.
PyInt(n) == IF n >= 0 THEN n \div FidDen ELSE -((-n) \div FidDen)
\* Mathematical floor.
Floor(n) == n \div FidDen
\* An integer as a fidelity value.
Fid(i) == i * FidDen

\* ---------------------------------------------------------- dictionaries
EmptyDict == [x \in {} |-> 0]
Put(d, k, v) == [x \in (DOMAIN d) \cup {k} |-> IF x = k THEN v ELSE d[x]]

\* ---------------------------------------------------------- configuration
OptimizerNames ==
    {"Optuna", "SMAC", "SMAC_Multifidelity", "DEHB", "RandomSearch", "DyHPO", "Foo"}

TunableLists ==
    { << >>,
      << [name |-> "lr", type |-> "float", dom |-> {1}],
         [name |-> "layers", type |-> "int", dom |-> {3}],
         [name |-> "act", type |-> "categorical", dom |-> {4}] >>,
      << [name |-> "lr", type |-> "float", dom |-> {1}],
         [name |-> "flag", type |-> "bool", dom |-> {1}] >> }

FixedLists(e) ==
    { << [name |-> "batch", value |-> 8], [name |-> "epochs", value |-> e] >> }

\* A fixed_params list that defines no epochs.
NoEpochsList == << [name |-> "batch", value |-> 8] >>

Configs ==
    { [hp_optimizer |-> [name |-> n, budget |-> b, hpo_repeats |-> r],
       wall_time |-> w, fixed_params |-> f, tunable_params |-> t] :
        n \in OptimizerNames, b \in 1..MaxBudget, r \in {1, MaxRepeats},
        w \in 1..MaxWallTime, t \in TunableLists,
        f \in {NoEpochsList} \cup UNION { FixedLists(e) : e \in 1..MaxEpochs } }

\* A data load or a training run takes no measurable time or one minute.
Durations == {0, SecondsPerMinute}

DbFiles == {RsDb} \cup (0..(MaxRepeats - 1))
StaleDb == [f \in DbFiles |-> [exists |-> TRUE, trials |-> {-1}]]
AbsentDb == [f \in DbFiles |-> [exists |-> FALSE, trials |-> {}]]

VARIABLES
    config,      \* the loaded experiment configuration
    pc,          \* position of the single thread of control
    repeat,      \* loop variable of the repeat loop
    now,         \* time.time()
    walltime,    \* the module-level start time handed to every Logger
    logger,      \* the Logger (Budget Guard) of the current repeat
    frames,      \* the call stack, outermost first
    exc,         \* the exception in flight
    trials,      \* trials issued by the driver of the current repeat
    driverStart, \* time at which the running driver was entered
    db,          \* trial databases on disk
    call,        \* arguments of the train_net invocation in progress
    trained,     \* whether train_net was ever invoked
    startedSeq,  \* repeat indices started, in order
    raised,      \* number of BudgetExceededException raised
    handledBy,   \* frames that caught a BudgetExceededException, in order
    escaped      \* the exception that left the process, if any

vars == << config, pc, repeat, now, walltime, logger, frames, exc, trials,
           driverStart, db, call, trained, startedSeq, raised, handledBy, escaped >>

\* -------------------------------------------------------- pure functions
RECURSIVE ParseFixedFrom(_, _)
ParseFixedFrom(fixed, i) ==
    IF i = 0 THEN EmptyDict
    ELSE Put(ParseFixedFrom(fixed, i - 1), fixed[i].name, fixed[i].value)

parse_fixed_params(cfg) == ParseFixedFrom(cfg.fixed_params, Len(cfg.fixed_params))

\* Variant: every type string is accepted.
TypeSupported_Any(t) == TRUE

TypeSupported(t) == t \in {"float", "int", "categorical"}

\* Index of the first tunable parameter whose type no branch accepts, 0 if none.
FirstUnsupported(cfg) ==
    LET bad == { i \in 1..Len(cfg.tunable_params) :
                    ~TypeSupported(cfg.tunable_params[i].type) }
    IN IF bad = {} THEN 0 ELSE CHOOSE i \in bad : \A j \in bad : i <= j

TunableNames(cfg) == { cfg.tunable_params[i].name : i \in 1..Len(cfg.tunable_params) }
FixedNames(cfg) == { cfg.fixed_params[i].name : i \in 1..Len(cfg.fixed_params) }

\* The configurations a backend can sample: one value per tunable parameter.
Samples(cfg) ==
    { s \in [TunableNames(cfg) -> UNION { cfg.tunable_params[i].dom :
                                            i \in 1..Len(cfg.tunable_params) }] :
        \A i \in 1..Len(cfg.tunable_params) :
            s[cfg.tunable_params[i].name] \in cfg.tunable_params[i].dom }

RECURSIVE Overlay(_, _, _)
Overlay(base, over, keys) ==
    IF keys = {} THEN base
    ELSE LET k == CHOOSE x \in keys : TRUE
         IN Overlay(Put(base, k, over[k]), over, keys \ {k})

\* Variant: the trial budget is not multiplied by the fixed epochs.
GuardBudget_TrialsOnly(cfg) == cfg.hp_optimizer.budget

\* Variant: the Logger is given a budget no run can reach.
GuardBudget_Unlimited(cfg) == CostCap + 1

GuardBudget(cfg) == cfg.hp_optimizer.budget * parse_fixed_params(cfg)["epochs"]

\* Whether params['epochs'] finds its key.
HasEpochs(cfg) == "epochs" \in DOMAIN parse_fixed_params(cfg)

MaxTime(cfg) == cfg.wall_time * SecondsPerMinute

\* ------------------------------------------------------ objective adapters
NoCall == [called |-> FALSE, params |-> EmptyDict, hasFid |-> FALSE, fidelity |-> 0]

\* objective_optuna: fixed parameters, then one suggested value per tunable.
objective_optuna_params(cfg, s) ==
    Overlay(parse_fixed_params(cfg), s, TunableNames(cfg))

\* Variant: the loop over fixed_params is missing.
objective_smac_params_NoFixed(cfg, s, hasBudget, budget) ==
    LET base == Overlay(EmptyDict, s, DOMAIN s)
    IN IF hasBudget THEN Put(base, "epochs", PyInt(budget)) ELSE base

\* objective_smac: dict(config), then the fixed parameters, then the budget.
objective_smac_params(cfg, s, hasBudget, budget) ==
    LET base == Overlay(Overlay(EmptyDict, s, DOMAIN s),
                        parse_fixed_params(cfg), FixedNames(cfg))
    IN IF hasBudget THEN Put(base, "epochs", PyInt(budget)) ELSE base

\* Variant: int(fidelity) without the lower limit of 1.
dehb_epochs_NoClamp(fidelity) == PyInt(fidelity)

dehb_epochs(fidelity) == IF fidelity > Fid(1) THEN PyInt(fidelity) ELSE 1

\* objective_dehb: fixed parameters, then the configuration, then the fidelity.
objective_dehb_params(cfg, s, fidelity) ==
    Put(Overlay(parse_fixed_params(cfg), s, DOMAIN s), "epochs", dehb_epochs(fidelity))

\* --------------------------------------------------------- Budget Guard
NoLogger ==
    [state |-> "NONE", consumed |-> 0, budget |-> 0, start_time |-> 0,
     max_time |-> 0, trials |-> 0]

NewLogger(budget, start_time, max_time) ==
    [state |-> "ACCUMULATING", consumed |-> 0, budget |-> budget,
     start_time |-> start_time, max_time |-> max_time, trials |-> 0]

\* One completed trial of cost `cost`, finishing at time t.
LoggerLog(l, cost, t) ==
    LET c == Min(l.consumed + cost, CostCap)
    IN [l EXCEPT !.consumed = c,
                 !.trials = Min(@ + 1, TrialCap),
                 !.state = IF c >= l.budget \/ t - l.start_time >= l.max_time
                           THEN "EXCEEDED" ELSE @]

\* ------------------------------------------------------- trial databases
OptunaDb(r) == r

\* create_study on a database file.
CreateStudy(file, load_if_exists) ==
    IF file.exists
    THEN [ok |-> load_if_exists, file |-> file]
    ELSE [ok |-> TRUE, file |-> [exists |-> TRUE, trials |-> {}]]

Unlink(file) == [exists |-> FALSE, trials |-> {}]

\* Variant: the file is not unlinked and the study is loaded if present.
OptunaPrepareDb_NoUnlink(file) == CreateStudy(file, TRUE)

\* optimize_optuna: unlink the repeat's file if present, then create the study.
OptunaPrepareDb(file) ==
    CreateStudy(IF file.exists THEN Unlink(file) ELSE file, FALSE)

\* optimize_rs: create or load the study of the single shared file.
RsPrepareDb(file) == CreateStudy(file, TRUE)

\* ------------------------------------------------------------ dispatch
\* Variant: the final else branch does nothing.
DispatchTarget_UnknownIgnored(name) ==
    IF name \in {"Optuna", "SMAC", "SMAC_Multifidelity", "DEHB", "RandomSearch"}
    THEN CASE name = "Optuna" -> "optimize_optuna"
           [] name = "SMAC" -> "optimize_smac"
           [] name = "SMAC_Multifidelity" -> "optimize_smac_multifidelity"
           [] name = "DEHB" -> "optimize_dehb"
           [] name = "RandomSearch" -> "optimize_rs"
    ELSE "pass"

DispatchTarget(name) ==
    CASE name = "Optuna" -> "optimize_optuna"
      [] name = "SMAC" -> "optimize_smac"
      [] name = "SMAC_Multifidelity" -> "optimize_smac_multifidelity"
      [] name = "DEHB" -> "optimize_dehb"
      [] name = "RandomSearch" -> "optimize_rs"
      [] name = "DyHPO" -> "pass"
      [] OTHER -> "raise"

\* Variant: __main__ has no except clause.
Handles_NeverCatches(frame, e) == FALSE

\* Variant: the objective adapters swallow the exception as well.
Handles_AdapterSwallows(frame, e) ==
    /\ e = "BudgetExceededException"
    /\ frame \in {"__main__", "objective_optuna", "objective_smac", "objective_dehb"}

\* The except clauses of each frame.
Handles(frame, e) == frame = "__main__" /\ e = "BudgetExceededException"

ObjectiveOf(driver) ==
    CASE driver \in {"optimize_optuna", "optimize_rs"} -> "objective_optuna"
      [] driver \in {"optimize_smac", "optimize_smac_multifidelity"} -> "objective_smac"
      [] driver = "optimize_dehb" -> "objective_dehb"

\* Whether the backend asks for another trial.
DriverContinues(driver, cfg, n, elapsed) ==
    CASE driver = "optimize_optuna" -> TRUE
      [] driver = "optimize_rs" -> n < cfg.hp_optimizer.budget
      [] driver = "optimize_smac" -> n < cfg.hp_optimizer.budget
      [] driver = "optimize_smac_multifidelity" ->
            n < SmacMfTrials /\ elapsed < cfg.wall_time * SecondsPerMinute
      [] driver = "optimize_dehb" ->
            n * parse_fixed_params(cfg)["epochs"] < DehbFactor * GuardBudget(cfg)

\* Fidelities the multi-fidelity backends hand to the objective.
SmacBudgets(cfg) == Fid(MinFidelity)..Fid(parse_fixed_params(cfg)["epochs"])
DehbFidelities(cfg) == 0..Fid(parse_fixed_params(cfg)["epochs"])

Top == frames[Len(frames)]
Driver == frames[2]

\* ------------------------------------------------------------------ Init
Init ==
    /\ config \in Configs
    /\ db \in {StaleDb, AbsentDb}
    /\ DispatchTarget(config.hp_optimizer.name) \notin {"optimize_optuna", "optimize_rs"}
          => db = AbsentDb
    /\ pc = "init"
    /\ repeat = 0
    /\ now = 0
    /\ walltime = 0
    /\ logger = NoLogger
    /\ frames = << "__main__" >>
    /\ exc = "none"
    /\ trials = 0
    /\ driverStart = 0
    /\ call = NoCall
    /\ trained = FALSE
    /\ startedSeq = << >>
    /\ raised = 0
    /\ handledBy = << >>
    /\ escaped = "none"

Raise(e) ==
    /\ exc' = e
    /\ pc' = "unwind"

\* The end of one iteration of the repeat loop.
NextIteration ==
    /\ repeat' = repeat + 1
    /\ frames' = << "__main__" >>
    /\ pc' = "loop"

\* walltime = time.time(); max_time; load_data(config)
LoadData ==
    /\ pc = "init"
    /\ walltime' = now
    /\ \E d \in Durations : now' = Min(now + d, TimeCap)
    /\ pc' = "loop"
    /\ UNCHANGED << config, repeat, logger, frames, exc, trials, driverStart, db,
                    call, trained, startedSeq, raised, handledBy, escaped >>

\* Head of the repeat loop: the budget (KeyError without a fixed epochs) and a
\* new Logger.
StartRepeat ==
    /\ pc = "loop"
    /\ repeat < config.hp_optimizer.hpo_repeats
    /\ startedSeq' = Append(startedSeq, repeat)
    /\ IF HasEpochs(config)
       THEN /\ logger' = NewLogger(GuardBudget(config), walltime, MaxTime(config))
            /\ pc' = "dispatch"
            /\ exc' = exc
       ELSE /\ Raise("KeyError")
            /\ logger' = logger
    /\ UNCHANGED << config, repeat, now, walltime, frames, trials, driverStart,
                    db, call, trained, raised, handledBy, escaped >>

\* range(hpo_repeats) is exhausted: the script ends.
ExitLoop ==
    /\ pc = "loop"
    /\ repeat >= config.hp_optimizer.hpo_repeats
    /\ pc' = "done"
    /\ UNCHANGED << config, repeat, now, walltime, logger, frames, exc, trials,
                    driverStart, db, call, trained, startedSeq, raised, handledBy, escaped >>

\* Entry of a driver that keeps its trials in a database file.
EnterDbDriver(driver, f, study) ==
    /\ frames' = Append(frames, driver)
    /\ IF study.ok
       THEN /\ db' = [db EXCEPT ![f] = study.file]
            /\ trials' = 0
            /\ driverStart' = now
            /\ pc' = "driver"
            /\ exc' = exc
       ELSE /\ Raise("DuplicatedStudyError")
            /\ UNCHANGED << db, trials, driverStart >>
    /\ UNCHANGED << config, repeat, now, walltime, logger, call, trained, startedSeq,
                    raised, handledBy, escaped >>

CallOptimizeOptuna ==
    /\ pc = "dispatch"
    /\ DispatchTarget(config.hp_optimizer.name) = "optimize_optuna"
    /\ EnterDbDriver("optimize_optuna", OptunaDb(repeat),
                     OptunaPrepareDb(db[OptunaDb(repeat)]))

CallOptimizeRs ==
    /\ pc = "dispatch"
    /\ DispatchTarget(config.hp_optimizer.name) = "optimize_rs"
    /\ EnterDbDriver("optimize_rs", RsDb, RsPrepareDb(db[RsDb]))

\* Entry of a driver that first builds a ConfigurationSpace.
EnterConfigSpaceDriver(driver) ==
    /\ frames' = Append(frames, driver)
    /\ IF FirstUnsupported(config) # 0
       THEN /\ Raise("ValueError")
            /\ UNCHANGED << trials, driverStart >>
       ELSE /\ trials' = 0
            /\ driverStart' = now
            /\ pc' = "driver"
            /\ exc' = exc
    /\ UNCHANGED << config, repeat, now, walltime, logger, db, call, trained, startedSeq,
                    raised, handledBy, escaped >>

CallOptimizeSmac ==
    /\ pc = "dispatch"
    /\ DispatchTarget(config.hp_optimizer.name) = "optimize_smac"
    /\ EnterConfigSpaceDriver("optimize_smac")

CallOptimizeSmacMultifidelity ==
    /\ pc = "dispatch"
    /\ DispatchTarget(config.hp_optimizer.name) = "optimize_smac_multifidelity"
    /\ EnterConfigSpaceDriver("optimize_smac_multifidelity")

CallOptimizeDehb ==
    /\ pc = "dispatch"
    /\ DispatchTarget(config.hp_optimizer.name) = "optimize_dehb"
    /\ EnterConfigSpaceDriver("optimize_dehb")

\* The DyHPO branch is an ellipsis: the iteration ends at once.
DispatchDyHPO ==
    /\ pc = "dispatch"
    /\ DispatchTarget(config.hp_optimizer.name) = "pass"
    /\ NextIteration
    /\ UNCHANGED << config, now, walltime, logger, exc, trials, driverStart, db,
                    call, trained, startedSeq, raised, handledBy, escaped >>

\* The else branch: raise ValueError inside the try block of __main__.
DispatchUnknown ==
    /\ pc = "dispatch"
    /\ DispatchTarget(config.hp_optimizer.name) = "raise"
    /\ Raise("ValueError")
    /\ UNCHANGED << config, repeat, now, walltime, logger, frames, trials,
                    driverStart, db, call, trained, startedSeq, raised, handledBy, escaped >>

\* The backend asks for one more trial and calls the objective.
RequestTrial ==
    /\ pc = "driver"
    /\ DriverContinues(Driver, config, trials, now - driverStart)
    /\ trials' = Min(trials + 1, TrialCap)
    /\ db' = CASE Driver = "optimize_optuna" ->
                    [db EXCEPT ![OptunaDb(repeat)].trials = @ \cup {repeat}]
               [] Driver = "optimize_rs" ->
                    [db EXCEPT ![RsDb].trials = @ \cup {repeat}]
               [] OTHER -> db
    /\ frames' = Append(frames, ObjectiveOf(Driver))
    /\ pc' = "objective"
    /\ UNCHANGED << config, repeat, now, walltime, logger, exc, driverStart,
                    call, trained, startedSeq, raised, handledBy, escaped >>

\* The backend's own stopping condition holds: optimize_X returns.
DriverReturn ==
    /\ pc = "driver"
    /\ ~DriverContinues(Driver, config, trials, now - driverStart)
    /\ NextIteration
    /\ UNCHANGED << config, now, walltime, logger, exc, trials, driverStart, db,
                    call, trained, startedSeq, raised, handledBy, escaped >>

CallTrainNet(params, hasFid, fidelity) ==
    /\ call' = [called |-> TRUE, params |-> params, hasFid |-> hasFid,
                 fidelity |-> fidelity]
    /\ trained' = TRUE
    /\ frames' = Append(frames, "train_net")
    /\ pc' = "train"
    /\ exc' = exc

ObjectiveOptuna ==
    /\ pc = "objective"
    /\ Top = "objective_optuna"
    /\ IF FirstUnsupported(config) # 0
       THEN Raise("ValueError") /\ UNCHANGED << call, trained, frames >>
       ELSE \E s \in Samples(config) :
                CallTrainNet(objective_optuna_params(config, s), FALSE, 0)
    /\ UNCHANGED << config, repeat, now, walltime, logger, trials, driverStart, db,
                    startedSeq, raised, handledBy, escaped >>

ObjectiveSmac ==
    /\ pc = "objective"
    /\ Top = "objective_smac"
    /\ \E s \in Samples(config) :
          IF Driver = "optimize_smac_multifidelity"
          THEN \E b \in SmacBudgets(config) :
                  CallTrainNet(objective_smac_params(config, s, TRUE, b), TRUE, b)
          ELSE CallTrainNet(objective_smac_params(config, s, FALSE, 0), FALSE, 0)
    /\ UNCHANGED << config, repeat, now, walltime, logger, trials, driverStart, db,
                    startedSeq, raised, handledBy, escaped >>

ObjectiveDehb ==
    /\ pc = "objective"
    /\ Top = "objective_dehb"
    /\ \E s \in Samples(config), f \in DehbFidelities(config) :
          CallTrainNet(objective_dehb_params(config, s, f), TRUE, f)
    /\ UNCHANGED << config, repeat, now, walltime, logger, trials, driverStart, db,
                    startedSeq, raised, handledBy, escaped >>

\* train_net runs, reports the completed trial to the Logger, and either
\* returns the loss to the backend or lets BudgetExceededException out.
TrainNet ==
    /\ pc = "train"
    /\ \E c \in 1..call.params["epochs"], d \in Durations :
          /\ now' = Min(now + d, TimeCap)
          /\ logger' = LoggerLog(logger, c, now')
    /\ IF logger.state # "EXCEEDED" /\ logger'.state = "EXCEEDED"
       THEN /\ Raise("BudgetExceededException")
            /\ raised' = Min(raised + 1, MaxRepeats + 1)
            /\ frames' = frames
       ELSE /\ frames' = SubSeq(frames, 1, 2)
            /\ pc' = "driver"
            /\ UNCHANGED << exc, raised >>
    /\ call' = NoCall
    /\ UNCHANGED << config, repeat, walltime, trials, driverStart, db, trained,
                    startedSeq, handledBy, escaped >>

\* A frame without a matching except clause is left.
Propagate ==
    /\ pc = "unwind"
    /\ ~Handles(Top, exc)
    /\ Len(frames) > 1
    /\ frames' = SubSeq(frames, 1, Len(frames) - 1)
    /\ UNCHANGED << config, pc, repeat, now, walltime, logger, exc, trials,
                    driverStart, db, call, trained, startedSeq, raised, handledBy, escaped >>

\* An except clause matches: in __main__, print and continue.
Catch ==
    /\ pc = "unwind"
    /\ Handles(Top, exc)
    /\ handledBy' = Append(handledBy, Top)
    /\ exc' = "none"
    /\ IF Top \in {"train_net", "objective_optuna", "objective_smac", "objective_dehb"}
       THEN /\ frames' = SubSeq(frames, 1, 2)
            /\ pc' = "driver"
            /\ repeat' = repeat
       ELSE NextIteration
    /\ UNCHANGED << config, now, walltime, logger, trials, driverStart, db, call, trained,
                    startedSeq, raised, escaped >>

\* No frame handled the exception: the process ends with a traceback.
ProcessExit ==
    /\ pc = "unwind"
    /\ ~Handles(Top, exc)
    /\ Len(frames) = 1
    /\ escaped' = exc
    /\ exc' = "none"
    /\ pc' = "crashed"
    /\ UNCHANGED << config, repeat, now, walltime, logger, frames, trials,
                    driverStart, db, call, trained, startedSeq, raised, handledBy >>

Next ==
    \/ LoadData
    \/ StartRepeat
    \/ ExitLoop
    \/ CallOptimizeOptuna
    \/ CallOptimizeRs
    \/ CallOptimizeSmac
    \/ CallOptimizeSmacMultifidelity
    \/ CallOptimizeDehb
    \/ DispatchDyHPO
    \/ DispatchUnknown
    \/ RequestTrial
    \/ DriverReturn
    \/ ObjectiveOptuna
    \/ ObjectiveSmac
    \/ ObjectiveDehb
    \/ TrainNet
    \/ Propagate
    \/ Catch
    \/ ProcessExit

Spec == Init /\ [][Next]_vars

\* The script is one thread: a step that can be taken is taken.
FairSpec == Spec /\ WF_vars(Next)

\* =================================================================
\* Properties
\* =================================================================
Name == config.hp_optimizer.name
Repeats == config.hp_optimizer.hpo_repeats
RecognisedNames == {"Optuna", "SMAC", "SMAC_Multifidelity", "DEHB", "RandomSearch", "DyHPO"}
ImplementedNames == {"Optuna", "SMAC", "SMAC_Multifidelity", "DEHB", "RandomSearch"}
OptunaBased == {"Optuna", "RandomSearch"}
FidelityAware == {"SMAC_Multifidelity", "DEHB"}
AllTypesSupported ==
    \A i \in 1..Len(config.tunable_params) :
        config.tunable_params[i].type \in {"float", "int", "categorical"}
HasFixedEpochs ==
    \E j \in 1..Len(config.fixed_params) : config.fixed_params[j].name = "epochs"
FixedEpochs ==
    IF HasFixedEpochs
    THEN LET i == CHOOSE j \in 1..Len(config.fixed_params) :
                      config.fixed_params[j].name = "epochs"
         IN config.fixed_params[i].value
    ELSE 0
ConfiguredBudget == config.hp_optimizer.budget * FixedEpochs
Upto(n) == [i \in 1..n |-> i - 1]
InsideRepeat == pc \in {"dispatch", "driver", "objective", "train", "unwind"}

\* C1 (as stated): with a recognised optimizer name, when the process has
\* ended, exactly the repeats 0..N-1 were started, in that order.
C1_AsStated ==
    (Name \in RecognisedNames /\ pc \in {"done", "crashed"}) =>
        startedSeq = Upto(Repeats)

\* C1 (amended): with a recognised optimizer name, a fixed epochs value and
\* only supported tunable types, repeats are started in the order 0, 1, ..., the process never dies,
\* and when the script ends exactly the repeats 0..N-1 were started, however
\* many of them ended with BudgetExceededException.
C1_AllRepeatsStarted ==
    (Name \in RecognisedNames /\ AllTypesSupported /\ HasFixedEpochs) =>
        /\ pc # "crashed"
        /\ Len(startedSeq) <= Repeats
        /\ startedSeq = Upto(Len(startedSeq))
        /\ InsideRepeat => Len(startedSeq) = repeat + 1
        /\ pc = "done" => startedSeq = Upto(Repeats)

C1_Witness ==
    /\ pc = "done"
    /\ Name = "Optuna"
    /\ Repeats >= 2
    /\ Len(handledBy) = Repeats
    /\ startedSeq = Upto(Repeats)

\* C2 (as stated): the guard is EXCEEDED exactly when the cumulative cost has
\* reached budget x epochs.
C2_AsStated ==
    logger.state # "NONE" =>
        (logger.state = "EXCEEDED" <=> logger.consumed >= ConfiguredBudget)

C2_GuardInv ==
    logger.state # "NONE" =>
        (logger.state = "EXCEEDED" <=>
            /\ logger.trials > 0
            /\ \/ logger.consumed >= ConfiguredBudget
               \/ now - logger.start_time >= config.wall_time * SecondsPerMinute)

SameGuard == ~(pc = "loop" /\ pc' = "dispatch")

C2_GuardStep ==
    SameGuard =>
        /\ logger'.consumed >= logger.consumed
        /\ logger.state = "EXCEEDED" =>
              /\ logger'.state = "EXCEEDED"
              /\ raised' = raised

\* C2 (amended): within one repeat the cumulative cost never decreases; after
\* each completed trial the guard is EXCEEDED exactly when the cumulative cost
\* has reached budget x epochs or the time elapsed since the guard's start
\* time has reached wall_time minutes; once EXCEEDED it stays EXCEEDED and
\* raises no second time.
C2_BudgetGuard == [] C2_GuardInv /\ [][C2_GuardStep]_vars

C2_Witness ==
    /\ logger.state = "EXCEEDED"
    /\ logger.trials >= 2
    /\ logger.consumed >= ConfiguredBudget
    /\ now - logger.start_time < config.wall_time * SecondsPerMinute

\* C3: when a repeat starts, its guard has consumed nothing, is ACCUMULATING,
\* holds the full budget, and its wall-clock allowance of wall_time minutes
\* runs from the start of that repeat.
C3_FreshBudgetState ==
    pc = "dispatch" =>
        /\ logger.state = "ACCUMULATING"
        /\ logger.consumed = 0
        /\ logger.budget = ConfiguredBudget
        /\ logger.max_time = config.wall_time * SecondsPerMinute
        /\ logger.start_time = now

C4_Inv ==
    /\ \A i \in 1..Len(handledBy) : handledBy[i] = "__main__"
    /\ escaped # "BudgetExceededException"
    /\ exc = "BudgetExceededException" => Len(handledBy) + 1 = raised
    /\ exc # "BudgetExceededException" => Len(handledBy) = raised

C4_Step ==
    Len(handledBy') > Len(handledBy) =>
        /\ Top = "__main__"
        /\ Len(handledBy') = Len(handledBy) + 1
        /\ repeat' = repeat + 1
        /\ pc' = "loop"
        /\ startedSeq' = startedSeq

\* C4: every BudgetExceededException is caught exactly once, by __main__ and
\* by no adapter or driver frame; catching it ends only the current iteration
\* of the repeat loop; it never leaves the process.
C4_CaughtOnceAtController == [] C4_Inv /\ [][C4_Step]_vars

C4_Witness ==
    /\ pc = "done"
    /\ Name = "DEHB"
    /\ raised >= 2
    /\ Len(handledBy) = raised

\* C5: with an unrecognised optimizer name no trial is issued, train_net is
\* never called, nothing is caught, only repeat 0 is ever started, the script
\* never ends normally, and what leaves the process is the ValueError of the
\* dispatch (or the KeyError of a configuration without a fixed epochs).
C5_UnknownOptimizerFailsFast ==
    Name \notin RecognisedNames =>
        /\ ~trained
        /\ trials = 0
        /\ Len(startedSeq) <= 1
        /\ handledBy = << >>
        /\ pc # "done"
        /\ pc = "crashed" =>
              /\ escaped = (IF HasFixedEpochs THEN "ValueError" ELSE "KeyError")
              /\ startedSeq = << 0 >>

C5_Witness ==
    /\ Name = "Foo"
    /\ Repeats >= 2
    /\ pc = "crashed"
    /\ escaped = "ValueError"

\* C6: the keys of every parameter set handed to train_net are exactly the
\* fixed names, the tunable names, and epochs for a fidelity-aware backend.
C6_ParameterSetKeys ==
    call.called =>
        DOMAIN call.params =
            FixedNames(config) \cup TunableNames(config)
                \cup (IF Name \in FidelityAware THEN {"epochs"} ELSE {})

C6_Witness ==
    /\ call.called
    /\ Name = "SMAC"
    /\ DOMAIN call.params = {"batch", "epochs", "lr", "layers", "act"}

UsedDb == IF Name = "Optuna" THEN OptunaDb(repeat) ELSE RsDb

C8_EpochsFromFidelity ==
    call.called =>
        LET e == call.params["epochs"]
            f == call.fidelity
        IN /\ Name = "DEHB" => (call.hasFid /\ e = Max(1, Floor(f)) /\ e >= 1)
           /\ Name = "SMAC_Multifidelity" =>
                 /\ call.hasFid
                 /\ e * FidDen <= f
                 /\ f < (e + 1) * FidDen
                 /\ e >= 1
           /\ Name = "SMAC" => (~call.hasFid /\ e = FixedEpochs)

C8_Witness ==
    /\ call.called
    /\ Name = "DEHB"
    /\ call.fidelity = FidDen + 1
    /\ call.params["epochs"] = 1

C9_FatalOutcome ==
    /\ ~trained
    /\ handledBy = << >>
    /\ Len(startedSeq) <= 1
    /\ pc # "done"
    /\ pc = "crashed" =>
          escaped = (IF HasFixedEpochs THEN "ValueError" ELSE "KeyError")

C10_RepeatTerminates ==
    /\ [](Name \in OptunaBased => trials <= ConfiguredBudget)
    /\ []<>(~(Name \in OptunaBased /\ InsideRepeat))

C10_Witness ==
    /\ Name = "Optuna"
    /\ repeat = 1
    /\ pc = "loop"
    /\ trials >= 2
    /\ logger.state = "EXCEEDED"

====
